---- MODULE Spec2Model ----
(***************************************************************************)
(* Model of ansi.py: the RGB colour type, the Ansi style descriptor and    *)
(* the gradient functions.                                                 *)
(*                                                                         *)
(* Python values are modelled as tagged records:                           *)
(*   numbers   [kind |-> "int" | "float", num, den]  (the exact value      *)
(*             num/den; within the bounds used here the double computed    *)
(*             by CPython truncates and rounds like the exact quotient)    *)
(*   strings   [kind |-> "str", s]                                         *)
(*   RGB       [kind |-> "RGB", red, green, blue] as a value, or           *)
(*             [kind |-> "RGB", at] as a reference into the object store   *)
(*   outcomes  [ok |-> TRUE, val] for a return, [ok |-> FALSE, err] for a  *)
(*             raised exception                                            *)
(***************************************************************************)
EXTENDS Integers, Sequences, FiniteSets, TLC

VARIABLES op, args, ret, heap, x, rec, y

vars == <<op, args, ret, heap, x, rec, y>>

(***************************************************************************)
(* Bounds of the exploration.                                              *)
(***************************************************************************)
MaxSteps == 7
MaxStops == 3

(***************************************************************************)
(* Python numbers.                                                         *)
(***************************************************************************)
PyInt(n) == [kind |-> "int", num |-> n, den |-> 1]

PyFloat(n, d) == [kind |-> "float", num |-> n, den |-> d]

NumKind(a, b) == IF a.kind = "int" /\ b.kind = "int" THEN "int" ELSE "float"

PyAdd(a, b) ==
    [kind |-> NumKind(a, b), num |-> a.num * b.den + b.num * a.den, den |-> a.den * b.den]

PySub(a, b) ==
    [kind |-> NumKind(a, b), num |-> a.num * b.den - b.num * a.den, den |-> a.den * b.den]

PyMul(a, b) ==
    [kind |-> NumKind(a, b), num |-> a.num * b.num, den |-> a.den * b.den]

\* a / b: true division always yields a float; b = 0 raises ZeroDivisionError
DivRaises(b) == b.num = 0

PyTrueDiv(a, b) ==
    IF b.num > 0 THEN PyFloat(a.num * b.den, a.den * b.num)
                 ELSE PyFloat(-(a.num * b.den), a.den * (-b.num))

\* int(a): truncation toward zero
PyIntOf(a) ==
    IF a.num >= 0 THEN PyInt(a.num \div a.den)
                  ELSE PyInt(-((-a.num) \div a.den))

\* round(a): nearest integer, ties to the even neighbour
PyRound(a) ==
    LET q == a.num \div a.den
        r == a.num - q * a.den
    IN  IF 2 * r < a.den THEN PyInt(q)
        ELSE IF 2 * r > a.den THEN PyInt(q + 1)
        ELSE IF q % 2 = 0 THEN PyInt(q) ELSE PyInt(q + 1)

\* a == b on numbers (an int equals the float of the same value)
PyEq(a, b) == a.num * b.den = b.num * a.den

IsInteger(a) == a.kind = "int"

(***************************************************************************)
(* Outcomes and simple values.                                             *)
(***************************************************************************)
Return(v) == [ok |-> TRUE, val |-> v]

Raise(e) == [ok |-> FALSE, err |-> e]

None == [kind |-> "None"]

Str(s) == [kind |-> "str", s |-> s]

range(n) == 0 .. (n - 1)

(***************************************************************************)
(* class RGB (as a value).                                                 *)
(***************************************************************************)
RGB(r, g, b) == [kind |-> "RGB", red |-> r, green |-> g, blue |-> b]

RGBi(r, g, b) == RGB(PyInt(r), PyInt(g), PyInt(b))

\* RGB.__add__
RGB_add(self, other) ==
    IF other.kind = "RGB"
    THEN Return(RGB(PyTrueDiv(PyAdd(self.red, other.red), PyInt(2)),
                    PyTrueDiv(PyAdd(self.green, other.green), PyInt(2)),
                    PyTrueDiv(PyAdd(self.blue, other.blue), PyInt(2))))
    ELSE Raise("TypeError")

(***************************************************************************)
(* gradient(color1, color2, steps)                                         *)
(***************************************************************************)
GradDenomAlt(steps) == PyInt(steps)

GradDenom(steps) == PyInt(steps - 1)

InterpolateAlt(c1, c2, step, steps) ==
    PyRound(PyAdd(c1, PyTrueDiv(PyMul(PySub(c2, c1), PyInt(step)), GradDenom(steps))))

Interpolate(c1, c2, step, steps) ==
    PyIntOf(PyAdd(c1, PyTrueDiv(PyMul(PySub(c2, c1), PyInt(step)), GradDenom(steps))))

gradient(color1, color2, steps) ==
    IF \E step \in range(steps) : DivRaises(GradDenom(steps))
    THEN Raise("ZeroDivisionError")
    ELSE Return([k \in 1 .. steps |->
                    RGB(Interpolate(color1.red, color2.red, k - 1, steps),
                        Interpolate(color1.green, color2.green, k - 1, steps),
                        Interpolate(color1.blue, color2.blue, k - 1, steps))])

InsertByPercAlt(e, s) == s \o <<e>>

(***************************************************************************)
(* adv_gradient(colors, steps); a colour stop is the pair <<RGB, percent>> *)
(***************************************************************************)
\* list.insert keeping the order of equal keys: sorted() is stable
InsertByPerc(e, s) ==
    LET k == Cardinality({j \in 1 .. Len(s) : s[j][2] <= e[2]})
    IN  SubSeq(s, 1, k) \o <<e>> \o SubSeq(s, k + 1, Len(s))

RECURSIVE SortedColsDesc(_)
SortedColsDesc(colors) ==
    IF colors = <<>> THEN <<>>
    ELSE LET s == SortedColsDesc(SubSeq(colors, 1, Len(colors) - 1))
             e == colors[Len(colors)]
             k == Cardinality({j \in 1 .. Len(s) : s[j][2] >= e[2]})
         IN  SubSeq(s, 1, k) \o <<e>> \o SubSeq(s, k + 1, Len(s))

\* sorted(colors, key=lambda x: x[1])
RECURSIVE SortedCols(_)
SortedCols(colors) ==
    IF colors = <<>> THEN <<>>
    ELSE InsertByPerc(colors[Len(colors)],
                      SortedCols(SubSeq(colors, 1, Len(colors) - 1)))

HasLead(sorted_cols) == ~(sorted_cols[1][2] = 0)

HasTrail(sorted_cols) == ~(sorted_cols[Len(sorted_cols)][2] = 100)

\* the percentage marks, with 0 and 100 added when absent
ColArrPerc(sorted_cols) ==
    (IF HasLead(sorted_cols) THEN <<0>> ELSE <<>>)
    \o [i \in 1 .. Len(sorted_cols) |-> sorted_cols[i][2]]
    \o (IF HasTrail(sorted_cols) THEN <<100>> ELSE <<>>)

\* the span between consecutive marks
Perc(col_arr_perc) ==
    [i \in 1 .. Len(col_arr_perc) - 1 |-> col_arr_perc[i + 1] - col_arr_perc[i]]

RECURSIVE SumSeq(_)
SumSeq(s) == IF s = <<>> THEN 0 ELSE s[1] + SumSeq(Tail(s))

StepsForAlt(i, total, steps) ==
    PyIntOf(PyMul(PyTrueDiv(PyInt(i), PyInt(total)), PyInt(steps))).num

\* round((i / sum(perc)) * steps)
StepsFor(i, total, steps) ==
    PyRound(PyMul(PyTrueDiv(PyInt(i), PyInt(total)), PyInt(steps))).num

StepsPer(perc, steps) ==
    [k \in 1 .. Len(perc) |-> StepsFor(perc[k], SumSeq(perc), steps)]

Repeat(c, n) == [k \in 1 .. n |-> c]

\* the loop over the spans between real stops, from span i on
RECURSIVE MiddleGradients(_, _, _, _)
MiddleGradients(result, sorted_cols, steps_per, i) ==
    IF i > Len(steps_per) THEN Return(result)
    ELSE LET g == gradient(sorted_cols[i][1], sorted_cols[i + 1][1], steps_per[i])
         IN  IF ~g.ok THEN g
             ELSE MiddleGradients(result \o g.val, sorted_cols, steps_per, i + 1)

ColorsAfterCallAlt(colors) == SortedCols(colors)

\* the caller's list after the call: sorted() builds a new list, and colors
\* is not assigned to or changed anywhere else in the function
ColorsAfterCall(colors) == colors

adv_gradient(colors, steps) ==
    IF colors = <<>> THEN Raise("IndexError")
    ELSE
    LET sorted_cols == SortedCols(colors)
        perc == Perc(ColArrPerc(sorted_cols))
    IN  IF DivRaises(PyInt(SumSeq(perc))) THEN Raise("ZeroDivisionError")
        ELSE
        LET all_steps == StepsPer(perc, steps)
            lead == HasLead(sorted_cols)
            trail == HasTrail(sorted_cols)
            first == IF lead THEN Repeat(sorted_cols[1][1], all_steps[1]) ELSE <<>>
            popped == IF lead THEN Tail(all_steps) ELSE all_steps
            steps_per == IF trail THEN SubSeq(popped, 1, Len(popped) - 1) ELSE popped
            middle == MiddleGradients(first, sorted_cols, steps_per, 1)
        IN  IF ~middle.ok THEN middle
            ELSE IF trail
                 THEN Return(middle.val \o Repeat(sorted_cols[Len(sorted_cols)][1],
                                                  all_steps[Len(all_steps)]))
                 ELSE middle

(***************************************************************************)
(* class Ansi (as a value) and the escape sequence it renders to.  A       *)
(* string of escape sequences is the sequence of its CSI sequences, each   *)
(* "ESC [ p1 ; p2 ; ... m" kept as the list of its parameters.             *)
(***************************************************************************)
_ansi_codes ==
    [default |-> 39,
     black |-> 30, bright_black |-> 90,
     red |-> 31, bright_red |-> 91,
     green |-> 32, bright_green |-> 92,
     yellow |-> 33, bright_yellow |-> 93,
     blue |-> 34, bright_blue |-> 94,
     magenta |-> 35, bright_magenta |-> 95,
     cyan |-> 36, bright_cyan |-> 96,
     white |-> 37, bright_white |-> 97]

\* Ansi.__init__
Ansi(fore, back, bold, dim, italic, underline, strikethrough, inverse, reset) ==
    [kind |-> "Ansi", fore |-> fore, back |-> back, bold |-> bold, dim |-> dim,
     italic |-> italic, underline |-> underline,
     strikethrough |-> strikethrough, inverse |-> inverse, reset |-> reset]

\* Ansi(): every parameter at its default
DefaultStyle ==
    Ansi(Str("default"), Str("default"), FALSE, FALSE, FALSE, FALSE, FALSE, FALSE, TRUE)

CSI(params) == [kind |-> "CSI", params |-> params]

\* the decimal text of an integer channel inside an f-string
Fmt(v) == v.num

Part(flag, code) == IF flag THEN <<code>> ELSE <<>>

StyleParamsAlt(self) ==
    Part(self.bold, 1) \o Part(self.dim, 2) \o Part(self.italic, 3)
    \o Part(self.underline, 4) \o Part(self.strikethrough, 9) \o Part(self.inverse, 7)

\* {b}{i}{u}{s}{d}{inv}
StyleParams(self) ==
    Part(self.bold, 1) \o Part(self.italic, 3) \o Part(self.underline, 4)
    \o Part(self.strikethrough, 9) \o Part(self.dim, 2) \o Part(self.inverse, 7)

AnyStyle(self) ==
    \/ self.bold \/ self.dim \/ self.italic
    \/ self.underline \/ self.strikethrough \/ self.inverse

\* Ansi.string
Ansi_string(self) ==
    IF \/ self.fore.kind = "str" /\ self.fore.s \notin DOMAIN _ansi_codes
       \/ self.back.kind = "str" /\ self.back.s \notin DOMAIN _ansi_codes
    THEN Raise("KeyError")
    ELSE
    LET fg == IF self.fore.kind = "str"
              THEN CSI(<<_ansi_codes[self.fore.s]>>)
              ELSE CSI(<<38, 2, Fmt(self.fore.red), Fmt(self.fore.green), Fmt(self.fore.blue)>>)
        bg == IF self.back.kind = "str"
              THEN CSI(<<_ansi_codes[self.back.s] + 10>>)
              ELSE CSI(<<48, 2, Fmt(self.back.red), Fmt(self.back.green), Fmt(self.back.blue)>>)
        styles == IF AnyStyle(self) THEN CSI(<<0>> \o StyleParams(self)) ELSE CSI(<<0>>)
    IN  Return(<<styles, fg, bg>>)

(***************************************************************************)
(* The object store.  heap[a] is the attribute dictionary (__dict__) of    *)
(* the object allocated a-th; a reference [kind |-> cls, at |-> a] is an   *)
(* instance of cls whose __dict__ is heap[a], and [kind |-> "dict",        *)
(* at |-> a] is that dictionary itself, so both share the storage.         *)
(***************************************************************************)
Ref(cls, a) == [kind |-> cls, at |-> a]

IsRef(v) == v.kind \in {"RGB", "Ansi", "dict"}

Alloc(h, cell, cls) == [heap |-> Append(h, cell), ref |-> Ref(cls, Len(h) + 1)]

\* RGB(red, green, blue)
NewRGB(h, r, g, b) == Alloc(h, [red |-> r, green |-> g, blue |-> b], "RGB")

GetAlt(d, key, default) == default

\* dict.get(key, default)
Get(d, key, default) == IF key \in DOMAIN d THEN d[key] ELSE default

\* RGB.to_dict: return self.__dict__
RGB_to_dict(self) == Ref("dict", self.at)

RGB_from_dictAlt(h, data) ==
    IF data.kind # "dict" THEN [heap |-> h, ret |-> Raise("TypeError")]
    ELSE IF ~({"red", "green", "blue"} \subseteq DOMAIN h[data.at])
         THEN [heap |-> h, ret |-> Raise("KeyError")]
         ELSE LET n == NewRGB(h, h[data.at]["blue"], h[data.at]["green"], h[data.at]["red"])
              IN  [heap |-> n.heap, ret |-> Return(n.ref)]

\* RGB.from_dict: self(data['red'], data['green'], data['blue'])
RGB_from_dict(h, data) ==
    IF data.kind # "dict" THEN [heap |-> h, ret |-> Raise("TypeError")]
    ELSE IF ~({"red", "green", "blue"} \subseteq DOMAIN h[data.at])
         THEN [heap |-> h, ret |-> Raise("KeyError")]
         ELSE LET n == NewRGB(h, h[data.at]["red"], h[data.at]["green"], h[data.at]["blue"])
              IN  [heap |-> n.heap, ret |-> Return(n.ref)]

\* the dataclass __eq__ of RGB: the channel tuples are equal
RGB_eq(h, a, b) ==
    /\ PyEq(h[a.at].red, h[b.at].red)
    /\ PyEq(h[a.at].green, h[b.at].green)
    /\ PyEq(h[a.at].blue, h[b.at].blue)

\* == on what a fore or back attribute can hold
RECURSIVE ValueEq(_, _, _)
ValueEq(h, a, b) ==
    IF a.kind # b.kind THEN FALSE
    ELSE IF a.kind = "str" THEN a.s = b.s
    ELSE IF a.kind = "RGB" THEN RGB_eq(h, a, b)
    ELSE IF a.kind = "dict"
         THEN /\ DOMAIN h[a.at] = DOMAIN h[b.at]
              /\ \A k \in DOMAIN h[a.at] : PyEq(h[a.at][k], h[b.at][k])
    ELSE a = b

\* Ansi.__eq__
Ansi_eq(h, self, other) ==
    IF other.kind # "Ansi" THEN FALSE
    ELSE /\ ValueEq(h, h[self.at].fore, h[other.at].fore)
         /\ ValueEq(h, h[self.at].back, h[other.at].back)
         /\ h[self.at].bold = h[other.at].bold
         /\ h[self.at].dim = h[other.at].dim
         /\ h[self.at].italic = h[other.at].italic
         /\ h[self.at].underline = h[other.at].underline
         /\ h[self.at].strikethrough = h[other.at].strikethrough
         /\ h[self.at].inverse = h[other.at].inverse
         /\ h[self.at].reset = h[other.at].reset

\* Ansi(...) on attribute values that are already in the store
NewAnsi(h, fore, back, bold, dim, italic, underline, strikethrough, inverse, reset) ==
    Alloc(h, [fore |-> fore, back |-> back, bold |-> bold, dim |-> dim,
              italic |-> italic, underline |-> underline,
              strikethrough |-> strikethrough, inverse |-> inverse,
              reset |-> reset], "Ansi")

deepcopyAlt(h, self) == [heap |-> h, ref |-> self]

\* deepcopy(self) of an Ansi: the object and the objects its fore and back
\* refer to are copied, an object referred to twice being copied once
deepcopy(h, self) ==
    LET cell == h[self.at]
        f == cell.fore
        b == cell.back
        h1 == IF IsRef(f) THEN Append(h, h[f.at]) ELSE h
        f2 == IF IsRef(f) THEN Ref(f.kind, Len(h1)) ELSE f
        same == IsRef(f) /\ IsRef(b) /\ b.at = f.at
        h2 == IF IsRef(b) /\ ~same THEN Append(h1, h1[b.at]) ELSE h1
        b2 == IF same THEN Ref(b.kind, f2.at)
              ELSE IF IsRef(b) THEN Ref(b.kind, Len(h2)) ELSE b
    IN  Alloc(h2, [cell EXCEPT !.fore = f2, !.back = b2], "Ansi")

\* Ansi.to_dict
Ansi_to_dict(h, self) ==
    LET c == deepcopy(h, self)
        new == c.ref
        h1 == IF c.heap[new.at].fore.kind = "RGB"
              THEN [c.heap EXCEPT ![new.at].fore = RGB_to_dict(@)]
              ELSE c.heap
        h2 == IF h1[new.at].back.kind = "RGB"
              THEN [h1 EXCEPT ![new.at].back = RGB_to_dict(@)]
              ELSE h1
    IN  [heap |-> h2, ret |-> Return(Ref("dict", new.at))]

\* Ansi.from_dict
Ansi_from_dict(h, data) ==
    LET d == h[data.at]
        fore0 == Get(d, "fore", Str("default"))
        back0 == Get(d, "back", Str("default"))
        f == IF fore0.kind # "str" THEN RGB_from_dict(h, fore0)
             ELSE [heap |-> h, ret |-> Return(fore0)]
    IN  IF ~f.ret.ok THEN f
        ELSE LET b == IF back0.kind # "str" THEN RGB_from_dict(f.heap, back0)
                      ELSE [heap |-> f.heap, ret |-> Return(back0)]
             IN  IF ~b.ret.ok THEN b
                 ELSE LET n == NewAnsi(b.heap, f.ret.val, b.ret.val,
                                       Get(d, "bold", FALSE), Get(d, "dim", FALSE),
                                       Get(d, "italic", FALSE), Get(d, "underline", FALSE),
                                       Get(d, "strikethrough", FALSE),
                                       Get(d, "inverse", FALSE), Get(d, "reset", TRUE))
                      IN  [heap |-> n.heap, ret |-> Return(n.ref)]

\* the value an attribute holds: an RGB object is read out of the store
ValueOf(h, v) ==
    IF v.kind = "RGB" THEN RGB(h[v.at].red, h[v.at].green, h[v.at].blue) ELSE v

\* the value of the object a reference denotes
Load(h, ref) ==
    IF ref.kind = "RGB" THEN ValueOf(h, ref)
    ELSE Ansi(ValueOf(h, h[ref.at].fore), ValueOf(h, h[ref.at].back),
              h[ref.at].bold, h[ref.at].dim, h[ref.at].italic, h[ref.at].underline,
              h[ref.at].strikethrough, h[ref.at].inverse, h[ref.at].reset)

(***************************************************************************)
(* Ansi.__add__: a style plus a text, or a style merged onto a style.      *)
(***************************************************************************)
\* the characters of a text inside a longer string
Text(t) == IF t = "" THEN <<>> ELSE <<[kind |-> "text", s |-> t]>>

\* '\033[39;49;0m'
FullReset == CSI(<<39, 49, 0>>)

TrailerAlt(reset) == <<FullReset>>

\* ('\033[39;49;0m' if self.reset else '')
Trailer(reset) == IF reset THEN <<FullReset>> ELSE <<>>

PickColorAlt(h, mine, theirs) ==
    IF ValueEq(h, theirs, Str("default")) THEN mine ELSE theirs

\* other.fore if self.fore == 'default' else self.fore
PickColor(h, mine, theirs) ==
    IF ValueEq(h, mine, Str("default")) THEN theirs ELSE mine

MergedResetAlt(h, self, other) == h[self.at].reset

\* the merged style is built without a reset argument: the default, True
MergedReset(h, self, other) == TRUE

\* Ansi.__add__
Ansi_add(h, self, other) ==
    IF other.kind = "str"
    THEN LET s == Ansi_string(Load(h, self))
         IN  IF ~s.ok THEN [heap |-> h, ret |-> s]
             ELSE [heap |-> h,
                   ret |-> Return(<<FullReset>> \o s.val \o Text(other.s)
                                  \o Trailer(h[self.at].reset))]
    ELSE IF other.kind = "Ansi"
    THEN LET n == NewAnsi(h,
                          PickColor(h, h[self.at].fore, h[other.at].fore),
                          PickColor(h, h[self.at].back, h[other.at].back),
                          h[self.at].bold \/ h[other.at].bold,
                          h[self.at].dim \/ h[other.at].dim,
                          h[self.at].italic \/ h[other.at].italic,
                          h[self.at].underline \/ h[other.at].underline,
                          h[self.at].strikethrough \/ h[other.at].strikethrough,
                          h[self.at].inverse \/ h[other.at].inverse,
                          MergedReset(h, self, other))
         IN  [heap |-> n.heap, ret |-> Return(n.ref)]
    ELSE [heap |-> h, ret |-> Raise("TypeError")]

\* the store h after the caller has built one more object; with `shared`
\* the fore and the back of a style are one RGB object
ConstructOn(h, self, shared) ==
    IF self.kind = "RGB" THEN NewRGB(h, self.red, self.green, self.blue)
    ELSE
    LET f == IF self.fore.kind = "RGB"
             THEN NewRGB(h, self.fore.red, self.fore.green, self.fore.blue)
             ELSE [heap |-> h, ref |-> self.fore]
        b == IF shared THEN f
             ELSE IF self.back.kind = "RGB"
                  THEN NewRGB(f.heap, self.back.red, self.back.green, self.back.blue)
                  ELSE [heap |-> f.heap, ref |-> self.back]
    IN  NewAnsi(b.heap, f.ref, b.ref, self.bold, self.dim, self.italic,
                self.underline, self.strikethrough, self.inverse, self.reset)

\* the store after the caller has built the object `self`
Construct(self, shared) == ConstructOn(<<>>, self, shared)

(***************************************************************************)
(* The setters of Ansi: copy the receiver, assign one attribute of the     *)
(* copy, return the copy.                                                  *)
(***************************************************************************)
copyAlt(h, self) == [heap |-> h, ref |-> self]

\* copy(self): a new object with the same attribute values (shallow)
copy(h, self) == Alloc(h, h[self.at], "Ansi")

\* new_style = copy(self); new_style.<attr> = value; return new_style
SetAttr(h, self, attr, value) ==
    LET c == copy(h, self)
    IN  [heap |-> [c.heap EXCEPT ![c.ref.at][attr] = value], ret |-> Return(c.ref)]

set_fore(h, self, fore) == SetAttr(h, self, "fore", fore)

set_back(h, self, back) == SetAttr(h, self, "back", back)

set_bold(h, self, bold) == SetAttr(h, self, "bold", bold)

set_dim(h, self, dim) == SetAttr(h, self, "dim", dim)

set_italic(h, self, italic) == SetAttr(h, self, "italic", italic)

set_underline(h, self, underline) == SetAttr(h, self, "underline", underline)

set_strikethrough(h, self, strikethrough) ==
    SetAttr(h, self, "strikethrough", strikethrough)

set_inverse(h, self, inverse) == SetAttr(h, self, "inverse", inverse)

(***************************************************************************)
(* to_ansi(colors, target)                                                 *)
(***************************************************************************)
ValidTargetAlt(target) == TRUE

\* target in ["fore", "back"]
ValidTarget(target) == target \in {"fore", "back"}

\* Ansi(fore=color) or Ansi(back=color)
PatternItem(color, target) ==
    IF target = "fore"
    THEN Ansi(color, Str("default"), FALSE, FALSE, FALSE, FALSE, FALSE, FALSE, TRUE)
    ELSE Ansi(Str("default"), color, FALSE, FALSE, FALSE, FALSE, FALSE, FALSE, TRUE)

to_ansi(colors, target) ==
    IF ~ValidTarget(target) THEN Raise("ValueError")
    ELSE Return([i \in 1 .. Len(colors) |-> PatternItem(colors[i], target)])

(***************************************************************************)
(* Inputs.                                                                 *)
(***************************************************************************)
Channels == {0, 100, 255}

Colors == {RGBi(r, g, b) : r \in Channels, g \in Channels, b \in Channels}

\* step counts, the negative, zero and one included
StepValues == -1 .. MaxSteps

AdvColors == {RGBi(0, 0, 0), RGBi(255, 0, 0), RGBi(255, 255, 255)}

Percentages == {0, 5, 50, 100}

Stops == {<<c, p>> : c \in AdvColors, p \in Percentages}

NamedColors == {Str(n) : n \in DOMAIN _ansi_codes}

StyleColors == NamedColors \cup {RGBi(255, 100, 0), RGBi(0, 0, 255)}

Styles ==
    {Ansi(f, b, bo, di, it, un, st, inv, re) :
        f \in StyleColors, b \in StyleColors, bo \in BOOLEAN, di \in BOOLEAN,
        it \in BOOLEAN, un \in BOOLEAN, st \in BOOLEAN, inv \in BOOLEAN,
        re \in BOOLEAN}

StopLists == UNION {[1 .. n -> Stops] : n \in 0 .. MaxStops}

(***************************************************************************)
(* Calls of the pure functions: Init draws the call and its arguments, the *)
(* action of that call computes its outcome.                               *)
(***************************************************************************)
GradientArgs ==
    {[colorA |-> a, colorB |-> b, steps |-> n] :
        a \in Colors, b \in Colors, n \in StepValues}

RGBAddArgs ==
    {[self |-> a, other |-> b] : a \in Colors, b \in Colors \cup {Str("red")}}

AdvGradientArgs ==
    {[colors |-> l, steps |-> n] : l \in StopLists, n \in StepValues}

StringArgs == {[self |-> st] : st \in Styles}

ColorLists == UNION {[1 .. n -> AdvColors] : n \in 0 .. MaxStops}

Targets == {"fore", "back", "both", "Fore", ""}

ToAnsiArgs == {[colors |-> l, target |-> t] : l \in ColorLists, t \in Targets}

ArgsOf(o) ==
    CASE o = "gradient" -> GradientArgs
      [] o = "Ansi.string" -> StringArgs
      [] o = "to_ansi" -> ToAnsiArgs
      [] o = "adv_gradient" -> AdvGradientArgs
      [] o = "RGB.__add__" -> RGBAddArgs

PureOps == {"gradient", "adv_gradient", "RGB.__add__", "Ansi.string", "to_ansi"}

Init ==
    /\ op \in PureOps
    /\ args \in ArgsOf(op)
    /\ ret = None
    /\ heap = <<>>
    /\ x = None
    /\ rec = None
    /\ y = None

CallGradient ==
    /\ op = "gradient"
    /\ ret = None
    /\ ret' = gradient(args.colorA, args.colorB, args.steps)
    /\ UNCHANGED <<op, args, heap, x, rec, y>>

CallRGBAdd ==
    /\ op = "RGB.__add__"
    /\ ret = None
    /\ ret' = RGB_add(args.self, args.other)
    /\ UNCHANGED <<op, args, heap, x, rec, y>>

CallAdvGradient ==
    /\ op = "adv_gradient"
    /\ ret = None
    /\ ret' = adv_gradient(args.colors, args.steps)
    /\ x' = [kind |-> "list", items |-> ColorsAfterCall(args.colors)]
    /\ UNCHANGED <<op, args, heap, rec, y>>

CallString ==
    /\ op = "Ansi.string"
    /\ ret = None
    /\ ret' = Ansi_string(args.self)
    /\ UNCHANGED <<op, args, heap, x, rec, y>>

CallToAnsi ==
    /\ op = "to_ansi"
    /\ ret = None
    /\ ret' = to_ansi(args.colors, args.target)
    /\ UNCHANGED <<op, args, heap, x, rec, y>>

Next ==
    \/ CallGradient
    \/ CallToAnsi
    \/ CallString
    \/ CallAdvGradient
    \/ CallRGBAdd

Spec == Init /\ [][Next]_vars

(***************************************************************************)
(* Objects in the store: InitObj builds one RGB or one Ansi, the actions   *)
(* convert it to a dictionary and build an object back from it.            *)
(***************************************************************************)
ObjColors == {Str("default"), Str("red"), RGBi(255, 100, 0), RGBi(0, 0, 255)}

ObjStyles ==
    {Ansi(f, b, bo, di, it, un, st, inv, re) :
        f \in ObjColors, b \in ObjColors, bo \in BOOLEAN, di \in BOOLEAN,
        it \in BOOLEAN, un \in BOOLEAN, st \in BOOLEAN, inv \in BOOLEAN,
        re \in BOOLEAN}

ObjArgs ==
    {[self |-> c, shared |-> FALSE] : c \in Colors \cup ObjStyles}
    \cup {[self |-> st, shared |-> TRUE] :
            st \in {t \in ObjStyles : t.fore.kind = "RGB" /\ t.back = t.fore}}

InitObj ==
    /\ op = "new"
    /\ args \in ObjArgs
    /\ ret = None
    /\ heap = Construct(args.self, args.shared).heap
    /\ x = Construct(args.self, args.shared).ref
    /\ rec = None
    /\ y = None

RGBToDict ==
    /\ x.kind = "RGB"
    /\ rec = None
    /\ op' = "RGB.to_dict"
    /\ ret' = Return(RGB_to_dict(x))
    /\ rec' = RGB_to_dict(x)
    /\ UNCHANGED <<args, heap, x, y>>

RGBFromDict ==
    /\ x.kind = "RGB"
    /\ rec # None
    /\ y = None
    /\ LET r == RGB_from_dict(heap, rec)
       IN  /\ op' = "RGB.from_dict"
           /\ heap' = r.heap
           /\ ret' = r.ret
           /\ y' = IF r.ret.ok THEN r.ret.val ELSE y
    /\ UNCHANGED <<args, x, rec>>

AnsiToDict ==
    /\ x.kind = "Ansi"
    /\ rec = None
    /\ LET r == Ansi_to_dict(heap, x)
       IN  /\ op' = "Ansi.to_dict"
           /\ heap' = r.heap
           /\ ret' = r.ret
           /\ rec' = r.ret.val
    /\ UNCHANGED <<args, x, y>>

AnsiFromDict ==
    /\ x.kind = "Ansi"
    /\ rec # None
    /\ y = None
    /\ LET r == Ansi_from_dict(heap, rec)
       IN  /\ op' = "Ansi.from_dict"
           /\ heap' = r.heap
           /\ ret' = r.ret
           /\ y' = IF r.ret.ok THEN r.ret.val ELSE y
    /\ UNCHANGED <<args, x, rec>>

NextObj ==
    \/ RGBToDict
    \/ RGBFromDict
    \/ AnsiToDict
    \/ AnsiFromDict

SpecObj == InitObj /\ [][NextObj]_vars

(***************************************************************************)
(* Ansi + operand: InitAdd builds the style x and the operand y (a text,   *)
(* a second style or a number), the action adds them.                      *)
(***************************************************************************)
FlagPatterns ==
    {[bold |-> FALSE, dim |-> FALSE, italic |-> FALSE, underline |-> FALSE,
      strikethrough |-> FALSE, inverse |-> FALSE],
     [bold |-> TRUE, dim |-> FALSE, italic |-> TRUE, underline |-> FALSE,
      strikethrough |-> FALSE, inverse |-> TRUE],
     [bold |-> FALSE, dim |-> TRUE, italic |-> FALSE, underline |-> TRUE,
      strikethrough |-> TRUE, inverse |-> FALSE],
     [bold |-> TRUE, dim |-> TRUE, italic |-> TRUE, underline |-> TRUE,
      strikethrough |-> TRUE, inverse |-> TRUE]}

AddColors == {Str("default"), Str("blue"), RGBi(255, 100, 0)}

AddStyles ==
    {Ansi(f, b, p.bold, p.dim, p.italic, p.underline, p.strikethrough, p.inverse, re) :
        f \in AddColors, b \in AddColors, p \in FlagPatterns, re \in BOOLEAN}

Texts == {Str(""), Str("Hello World!")}

AddArgs ==
    {[self |-> a, other |-> b] :
        a \in AddStyles, b \in AddStyles \cup Texts \cup {PyInt(1)}}

\* the operand as the caller holds it
Operand(h, other) ==
    IF other.kind = "Ansi" THEN ConstructOn(h, other, FALSE)
    ELSE [heap |-> h, ref |-> other]

InitAdd ==
    /\ op = "new"
    /\ args \in AddArgs
    /\ ret = None
    /\ heap = Operand(Construct(args.self, FALSE).heap, args.other).heap
    /\ x = Construct(args.self, FALSE).ref
    /\ y = Operand(Construct(args.self, FALSE).heap, args.other).ref
    /\ rec = None

AnsiAdd(kinds) ==
    /\ ret = None
    /\ y.kind \in kinds
    /\ LET r == Ansi_add(heap, x, y)
       IN  /\ op' = "Ansi.__add__"
           /\ heap' = r.heap
           /\ ret' = r.ret
    /\ UNCHANGED <<args, x, rec, y>>

AnsiAddText == AnsiAdd({"str"})

AnsiAddAnsi == AnsiAdd({"Ansi"})

AnsiAddOther == AnsiAdd({"int", "float", "RGB", "dict", "None"})

NextAdd ==
    \/ AnsiAddText
    \/ AnsiAddAnsi
    \/ AnsiAddOther

SpecAdd == InitAdd /\ [][NextAdd]_vars

(***************************************************************************)
(* Setter calls: InitSet builds the style x and draws the calls to make,   *)
(* each on x or on a style an earlier call returned; y lists the styles    *)
(* returned so far.                                                        *)
(***************************************************************************)
MaxCalls == 2

Bool(b) == [kind |-> "bool", b |-> b]

ColorSetters == {"set_fore", "set_back"}

FlagSetters ==
    {"set_bold", "set_dim", "set_italic", "set_underline", "set_strikethrough",
     "set_inverse"}

\* the attribute a setter assigns
AttrOf(name) ==
    CASE name = "set_fore" -> "fore"
      [] name = "set_back" -> "back"
      [] name = "set_bold" -> "bold"
      [] name = "set_dim" -> "dim"
      [] name = "set_italic" -> "italic"
      [] name = "set_underline" -> "underline"
      [] name = "set_strikethrough" -> "strikethrough"
      [] name = "set_inverse" -> "inverse"

\* the i-th call is made on x (recv = 0) or on the result of an earlier call
CallsAt(i) ==
    {[name |-> n, value |-> v, recv |-> r] :
        n \in ColorSetters, v \in {Str("default"), Str("red"), RGBi(0, 0, 255)},
        r \in 0 .. i - 1}
    \cup {[name |-> n, value |-> Bool(b), recv |-> r] :
            n \in FlagSetters, b \in BOOLEAN, r \in 0 .. i - 1}

RECURSIVE CallPlans(_)
CallPlans(n) ==
    IF n = 0 THEN {<<>>}
    ELSE {Append(p, c) : p \in CallPlans(n - 1), c \in CallsAt(n)}

SetStyles ==
    {DefaultStyle,
     Ansi(RGBi(255, 100, 0), RGBi(255, 100, 0), TRUE, FALSE, TRUE, FALSE, TRUE, TRUE, FALSE)}

SetArgs ==
    {[self |-> s, shared |-> sh, calls |-> p] :
        s \in SetStyles, sh \in BOOLEAN,
        p \in UNION {CallPlans(n) : n \in 1 .. MaxCalls}}

InitSet ==
    /\ op = "new"
    /\ args \in {a \in SetArgs : a.shared => (a.self.fore.kind = "RGB"
                                             /\ a.self.back = a.self.fore)}
    /\ ret = None
    /\ heap = Construct(args.self, args.shared).heap
    /\ x = Construct(args.self, args.shared).ref
    /\ rec = None
    /\ y = <<>>

\* the style the call c is made on
Receiver(c) == IF c.recv = 0 THEN x ELSE y[c.recv]

CallSetter(h, self, name, value) ==
    CASE name = "set_fore" -> set_fore(h, self, value)
      [] name = "set_back" -> set_back(h, self, value)
      [] name = "set_bold" -> set_bold(h, self, value)
      [] name = "set_dim" -> set_dim(h, self, value)
      [] name = "set_italic" -> set_italic(h, self, value)
      [] name = "set_underline" -> set_underline(h, self, value)
      [] name = "set_strikethrough" -> set_strikethrough(h, self, value)
      [] name = "set_inverse" -> set_inverse(h, self, value)

\* the argument as the caller passes it: an RGB is a newly built object
Argument(h, v) ==
    IF v.kind = "RGB" THEN NewRGB(h, v.red, v.green, v.blue)
    ELSE IF v.kind = "bool" THEN [heap |-> h, ref |-> v.b]
    ELSE [heap |-> h, ref |-> v]

Setter(name) ==
    /\ Len(y) < Len(args.calls)
    /\ LET c == args.calls[Len(y) + 1]
           a == Argument(heap, c.value)
           r == CallSetter(a.heap, Receiver(c), name, a.ref)
       IN  /\ c.name = name
           /\ op' = name
           /\ heap' = r.heap
           /\ ret' = r.ret
           /\ y' = Append(y, r.ret.val)
    /\ UNCHANGED <<args, x, rec>>

SetFore == Setter("set_fore")

SetBack == Setter("set_back")

SetBold == Setter("set_bold")

SetDim == Setter("set_dim")

SetItalic == Setter("set_italic")

SetUnderline == Setter("set_underline")

SetStrikethrough == Setter("set_strikethrough")

SetInverse == Setter("set_inverse")

NextSet ==
    \/ SetFore
    \/ SetBack
    \/ SetBold
    \/ SetDim
    \/ SetItalic
    \/ SetUnderline
    \/ SetStrikethrough
    \/ SetInverse

SpecSet == InitSet /\ [][NextSet]_vars

(***************************************************************************)
(* Records with missing keys: InitRec builds the dictionary rec the caller *)
(* passes, the action builds an object from it.                            *)
(***************************************************************************)
ColorKeys == {"red", "green", "blue"}

StyleKeys ==
    {"fore", "back", "bold", "dim", "italic", "underline", "strikethrough",
     "inverse", "reset"}

\* a record whose every entry differs from the default of its field
FullColorRecord == [red |-> PyInt(255), green |-> PyInt(100), blue |-> PyInt(0)]

FullStyleRecord ==
    [fore |-> Str("red"), back |-> Str("blue"), bold |-> TRUE, dim |-> TRUE,
     italic |-> TRUE, underline |-> TRUE, strikethrough |-> TRUE,
     inverse |-> TRUE, reset |-> FALSE]

\* what the caller puts under 'fore' or 'back': a name or a colour record
ColorEntries == {Str("red")} \cup {[kind |-> "dict", keys |-> K] : K \in SUBSET ColorKeys}

BackEntries ==
    {Str("blue"), [kind |-> "dict", keys |-> ColorKeys],
     [kind |-> "dict", keys |-> {"red", "green"}]}

RecArgs ==
    {[cls |-> "RGB", keys |-> K] : K \in SUBSET ColorKeys}
    \cup {[cls |-> "Ansi", keys |-> K, fore |-> f, back |-> b] :
            K \in SUBSET StyleKeys, f \in ColorEntries, b \in BackEntries}

Restrict(r, K) == [k \in K |-> r[k]]

\* the store with the entry built: a colour record is a dictionary of its own
Entry(h, e) ==
    IF e.kind = "dict" THEN Alloc(h, Restrict(FullColorRecord, e.keys), "dict")
    ELSE [heap |-> h, ref |-> e]

BuildRecord(a) ==
    IF a.cls = "RGB" THEN Alloc(<<>>, Restrict(FullColorRecord, a.keys), "dict")
    ELSE LET f == Entry(<<>>, a.fore)
             b == Entry(f.heap, a.back)
         IN  Alloc(b.heap,
                   Restrict([FullStyleRecord EXCEPT !.fore = f.ref, !.back = b.ref],
                            a.keys),
                   "dict")

InitRec ==
    /\ op = "new"
    /\ args \in {a \in RecArgs :
                    a.cls = "Ansi" =>
                        /\ "fore" \notin a.keys => a.fore = Str("red")
                        /\ "back" \notin a.keys => a.back = Str("blue")}
    /\ ret = None
    /\ heap = BuildRecord(args).heap
    /\ rec = BuildRecord(args).ref
    /\ x = None
    /\ y = None

RGBFromRecord ==
    /\ args.cls = "RGB"
    /\ ret = None
    /\ LET r == RGB_from_dict(heap, rec)
       IN  /\ op' = "RGB.from_dict"
           /\ heap' = r.heap
           /\ ret' = r.ret
           /\ y' = IF r.ret.ok THEN r.ret.val ELSE y
    /\ UNCHANGED <<args, x, rec>>

AnsiFromRecord ==
    /\ args.cls = "Ansi"
    /\ ret = None
    /\ LET r == Ansi_from_dict(heap, rec)
       IN  /\ op' = "Ansi.from_dict"
           /\ heap' = r.heap
           /\ ret' = r.ret
           /\ y' = IF r.ret.ok THEN r.ret.val ELSE y
    /\ UNCHANGED <<args, x, rec>>

NextRec ==
    \/ RGBFromRecord
    \/ AnsiFromRecord

SpecRec == InitRec /\ [][NextRec]_vars

(***************************************************************************)
(* A caller that changes the record to_dict returned: r[key] = value and,  *)
(* for a nested colour record, r[outer][key] = value.                      *)
(***************************************************************************)
\* a value the entry under key does not hold yet
NewValue(d, key) ==
    IF key \in {"red", "green", "blue"} THEN PyInt(7)
    ELSE IF key \in {"fore", "back"} THEN Str("blue")
    ELSE ~d[key]

\* r[key] = value
SetItem ==
    /\ op \in {"RGB.to_dict", "Ansi.to_dict"}
    /\ \E key \in DOMAIN heap[rec.at] :
          /\ heap' = [heap EXCEPT ![rec.at][key] = NewValue(heap[rec.at], key)]
          /\ y' = Str(key)
    /\ op' = "setitem"
    /\ UNCHANGED <<args, ret, x, rec>>

\* r[outer][key] = value
SetNestedItem ==
    /\ op = "Ansi.to_dict"
    /\ \E outer \in {"fore", "back"}, key \in {"red", "green", "blue"} :
          /\ heap[rec.at][outer].kind = "dict"
          /\ heap' = [heap EXCEPT ![heap[rec.at][outer].at][key] = PyInt(7)]
          /\ y' = Str(outer)
    /\ op' = "setitem"
    /\ UNCHANGED <<args, ret, x, rec>>

NextAlias ==
    \/ RGBToDict
    \/ AnsiToDict
    \/ SetItem
    \/ SetNestedItem

SpecAlias == InitObj /\ [][NextAlias]_vars

(***************************************************************************)
(* Properties of gradient.                                                 *)
(***************************************************************************)
Returned(o) == op = o /\ ret # None

\* v is the integer part of a + (b - a) * i / (steps - 1), a value that is
\* never negative for channels in 0..255
IsTruncatedSample(v, a, b, i, steps) ==
    LET n == a.num * (steps - 1) + (b.num - a.num) * i
    IN  /\ IsInteger(v)
        /\ v.num * (steps - 1) <= n
        /\ n < (v.num + 1) * (steps - 1)

\* C1: for steps > 1, gradient returns exactly `steps` colours and channel c
\* of element i is colorA.c + (colorB.c - colorA.c) * i / (steps - 1)
\* truncated to an integer.
GradientSamples ==
    (Returned("gradient") /\ args.steps > 1) =>
        /\ ret.ok
        /\ Len(ret.val) = args.steps
        /\ \A i \in 0 .. args.steps - 1 :
            /\ IsTruncatedSample(ret.val[i + 1].red, args.colorA.red,
                                 args.colorB.red, i, args.steps)
            /\ IsTruncatedSample(ret.val[i + 1].green, args.colorA.green,
                                 args.colorB.green, i, args.steps)
            /\ IsTruncatedSample(ret.val[i + 1].blue, args.colorA.blue,
                                 args.colorB.blue, i, args.steps)

\* black to white in 3 steps gives the channels 0, 127, 255
GradientSamplesWitness ==
    /\ Returned("gradient")
    /\ args = [colorA |-> RGBi(0, 0, 0), colorB |-> RGBi(255, 255, 255), steps |-> 3]
    /\ ret = Return(<<RGBi(0, 0, 0), RGBi(127, 127, 127), RGBi(255, 255, 255)>>)

\* C2: for steps > 1 the first element of gradient(colorA, colorB, steps) is
\* colorA and the last one, at index steps - 1, is colorB, in all channels.
GradientEndpoints ==
    (Returned("gradient") /\ args.steps > 1) =>
        /\ ret.ok
        /\ ret.val[1] = args.colorA
        /\ ret.val[args.steps] = args.colorB

GradientEndpointsWitness ==
    /\ Returned("gradient")
    /\ args.steps = MaxSteps
    /\ args.colorA = RGBi(255, 100, 0)
    /\ args.colorB = RGBi(0, 100, 255)
    /\ ret.ok
    /\ ret.val[1] = RGBi(255, 100, 0)
    /\ ret.val[MaxSteps] = RGBi(0, 100, 255)

\* C3: gradient with steps <= 1 ends in an invalid-argument error: it never
\* returns a list and never fails with a division by zero.
GradientRejectsFewSteps ==
    (Returned("gradient") /\ args.steps <= 1) =>
        (~ret.ok /\ ret.err = "ValueError")

(***************************************************************************)
(* Properties of adv_gradient.                                             *)
(***************************************************************************)
PercentsOf(colors) == {colors[i][2] : i \in 1 .. Len(colors)}

MinPercent(colors) ==
    CHOOSE p \in PercentsOf(colors) : \A q \in PercentsOf(colors) : p <= q

MaxPercent(colors) ==
    CHOOSE p \in PercentsOf(colors) : \A q \in PercentsOf(colors) : p >= q

ColorsAt(colors, p) == {colors[i][1] : i \in {j \in 1 .. Len(colors) : colors[j][2] = p}}

\* the spans between consecutive marks, the added 0% and 100% marks included
Segments(colors) ==
    Len(colors) - 1
    + (IF MinPercent(colors) # 0 THEN 1 ELSE 0)
    + (IF MaxPercent(colors) # 100 THEN 1 ELSE 0)

Distance(a, b) == IF a >= b THEN a - b ELSE b - a

\* C4: for a non-empty stop list and steps >= 2, adv_gradient returns a
\* sequence (it does not fail) whose length differs from steps by at most
\* the number of segments between consecutive percentage marks.
AdvGradientLength ==
    (Returned("adv_gradient") /\ args.colors # <<>> /\ args.steps >= 2) =>
        /\ ret.ok
        /\ Distance(Len(ret.val), args.steps) <= Segments(args.colors)

\* C5: on exactly the two stops (a, 0) and (b, 100), adv_gradient returns the
\* sequence gradient(a, b, steps), element for element, for every steps > 1.
AdvGradientTwoStops ==
    ( /\ Returned("adv_gradient")
      /\ Len(args.colors) = 2
      /\ args.colors[1][2] = 0
      /\ args.colors[2][2] = 100
      /\ args.steps > 1 ) =>
        /\ ret.ok
        /\ ret = gradient(args.colors[1][1], args.colors[2][1], args.steps)

AdvGradientTwoStopsWitness ==
    /\ Returned("adv_gradient")
    /\ args = [colors |-> << <<RGBi(255, 0, 0), 0>>, <<RGBi(255, 255, 255), 100>> >>,
               steps |-> 3]
    /\ ret = Return(<<RGBi(255, 0, 0), RGBi(255, 127, 127), RGBi(255, 255, 255)>>)

\* C6: a non-empty sequence returned by adv_gradient starts with the colour
\* of the lowest-percentage stop and ends with the colour of the
\* highest-percentage stop.
AdvGradientFirstToLast ==
    (Returned("adv_gradient") /\ ret.ok /\ ret.val # <<>>) =>
        /\ ret.val[1] \in ColorsAt(args.colors, MinPercent(args.colors))
        /\ ret.val[Len(ret.val)] \in ColorsAt(args.colors, MaxPercent(args.colors))

(***************************************************************************)
(* Properties of the RGB channels.                                         *)
(***************************************************************************)
IsByte(v) == IsInteger(v) /\ v.num \in 0 .. 255

HasByteChannels(c) == IsByte(c.red) /\ IsByte(c.green) /\ IsByte(c.blue)

\* C7: the RGB values returned by RGB + RGB, gradient, adv_gradient and
\* RGB.from_dict for colours with integer channels in 0..255 have integer
\* channels in 0..255; in particular the average of two colours has integer
\* channels.
ChannelsStayBytes ==
    /\ (op = "RGB.from_dict" /\ ret.ok) => HasByteChannels(Load(heap, y))
    /\ (Returned("RGB.__add__") /\ ret.ok) => HasByteChannels(ret.val)
    /\ (Returned("gradient") /\ ret.ok) =>
            \A i \in 1 .. Len(ret.val) : HasByteChannels(ret.val[i])
    /\ (Returned("adv_gradient") /\ ret.ok) =>
            \A i \in 1 .. Len(ret.val) : HasByteChannels(ret.val[i])

(***************************************************************************)
(* Properties of Ansi.string.                                              *)
(***************************************************************************)
FlagSet(self, code) ==
    CASE code = 1 -> self.bold
      [] code = 2 -> self.dim
      [] code = 3 -> self.italic
      [] code = 4 -> self.underline
      [] code = 9 -> self.strikethrough
      [] code = 7 -> self.inverse

ColorParams(c, base, offset) ==
    IF c.kind = "str" THEN <<_ansi_codes[c.s] + offset>>
    ELSE <<base, 2, c.red.num, c.green.num, c.blue.num>>

\* C10: the rendering is the attribute sequence, then the foreground
\* sequence, then the background sequence; the attribute sequence lists the
\* codes of the set flags in the order 1, 3, 4, 9, 2, 7 after the reset code
\* and is the plain reset when no flag is set; a named colour gives its code
\* (+ 10 as background), an RGB gives 38;2;r;g;b (48;2;r;g;b as background).
StringOrder ==
    Returned("Ansi.string") =>
        /\ ret.ok
        /\ Len(ret.val) = 3
        /\ ret.val[1].params =
              <<0>> \o SelectSeq(<<1, 3, 4, 9, 2, 7>>, LAMBDA c : FlagSet(args.self, c))
        /\ ret.val[2].params = ColorParams(args.self.fore, 38, 0)
        /\ ret.val[3].params = ColorParams(args.self.back, 48, 10)

\* bold with dim, and a red foreground: bold's code comes first, then 31
StringOrderWitness ==
    /\ Returned("Ansi.string")
    /\ args.self.bold /\ args.self.dim /\ args.self.italic
    /\ args.self.fore = Str("red")
    /\ args.self.back.kind = "RGB"
    /\ ret.ok
    /\ ret.val[1].params[2] = 1
    /\ ret.val[2] = CSI(<<31>>)

(***************************************************************************)
(* Properties of to_dict and from_dict.                                    *)
(***************************************************************************)
\* C8: for every RGB x with channels in 0..255, RGB.from_dict(x.to_dict())
\* equals x: same red, green and blue.
RGBRoundTrip ==
    op = "RGB.from_dict" =>
        /\ ret.ok
        /\ RGB_eq(heap, y, x)
        /\ Load(heap, y) = args.self

RGBRoundTripWitness ==
    /\ op = "RGB.from_dict"
    /\ args.self = RGBi(255, 100, 0)
    /\ y.kind = "RGB"
    /\ y.at # x.at
    /\ Load(heap, y) = RGBi(255, 100, 0)

\* C9: for every style x, Ansi.from_dict(x.to_dict()) equals x in all nine
\* fields, and to_dict leaves x as it was: an RGB fore or back of x is still
\* an RGB, not a dictionary.
AnsiRoundTrip ==
    /\ op = "Ansi.to_dict" => (ret.ok /\ Load(heap, x) = args.self)
    /\ op = "Ansi.from_dict" =>
        /\ ret.ok
        /\ Ansi_eq(heap, y, x)
        /\ Ansi_eq(heap, x, y)
        /\ Load(heap, y) = args.self
        /\ Load(heap, x) = args.self

AnsiRoundTripWitness ==
    /\ op = "Ansi.from_dict"
    /\ args.self.fore = RGBi(255, 100, 0)
    /\ args.self.back = RGBi(0, 0, 255)
    /\ args.self.bold /\ ~args.self.reset
    /\ heap[rec.at].fore.kind = "dict"
    /\ heap[x.at].fore.kind = "RGB"
    /\ y.kind = "Ansi"
    /\ Load(heap, y) = args.self

(***************************************************************************)
(* Properties of Ansi.__add__.                                             *)
(***************************************************************************)
Added(kind) == op = "Ansi.__add__" /\ y.kind = kind

\* C11: style + text is the reset prefix, then the rendering of the style,
\* then the text, followed by exactly one full reset when the style's reset
\* flag is set and by nothing when it is not.
AddTextLayout ==
    Added("str") =>
        /\ ret.ok
        /\ LET s == ret.val
               r == Ansi_string(args.self).val
               t == IF args.other.s = "" THEN 0 ELSE 1
           IN  /\ s[1] = CSI(<<39, 49, 0>>)
               /\ SubSeq(s, 2, 1 + Len(r)) = r
               /\ t = 1 => s[2 + Len(r)] = [kind |-> "text", s |-> args.other.s]
               /\ IF args.self.reset
                  THEN /\ Len(s) = 2 + Len(r) + t
                       /\ s[Len(s)] = CSI(<<39, 49, 0>>)
                  ELSE Len(s) = 1 + Len(r) + t

AddTextLayoutWitness ==
    /\ Added("str")
    /\ args.other = Str("Hello World!")
    /\ ~args.self.reset
    /\ args.self.bold
    /\ ret.ok
    /\ Len(ret.val) = 5
    /\ ret.val[5] = [kind |-> "text", s |-> "Hello World!"]

\* C12: the merge a + b has fore = a.fore unless a.fore is 'default', then
\* b.fore; back likewise; each of the six flags is the OR of the operands'
\* flags; neither a nor b is modified.
MergeFields ==
    Added("Ansi") =>
        /\ ret.ok
        /\ LET m == Load(heap, ret.val)
               a == args.self
               b == args.other
           IN  /\ m.fore = IF a.fore = Str("default") THEN b.fore ELSE a.fore
               /\ m.back = IF a.back = Str("default") THEN b.back ELSE a.back
               /\ m.bold = (a.bold \/ b.bold)
               /\ m.dim = (a.dim \/ b.dim)
               /\ m.italic = (a.italic \/ b.italic)
               /\ m.underline = (a.underline \/ b.underline)
               /\ m.strikethrough = (a.strikethrough \/ b.strikethrough)
               /\ m.inverse = (a.inverse \/ b.inverse)
               /\ Load(heap, x) = a
               /\ Load(heap, y) = b

\* merging fore = 'default' onto fore = 'blue' yields fore = 'blue'
MergeFieldsWitness ==
    /\ Added("Ansi")
    /\ args.self.fore = Str("default")
    /\ args.other.fore = Str("blue")
    /\ args.self.back = RGBi(255, 100, 0)
    /\ args.self.bold /\ ~args.other.bold
    /\ ~args.self.dim /\ args.other.dim
    /\ ret.ok
    /\ Load(heap, ret.val).fore = Str("blue")
    /\ Load(heap, ret.val).back = RGBi(255, 100, 0)

\* C17: the reset flag is not merged: a + b has reset = True whatever
\* a.reset and b.reset are, so a + default style equals a exactly when
\* a.reset is true.
MergeReset ==
    Added("Ansi") =>
        /\ ret.ok
        /\ Load(heap, ret.val).reset = TRUE
        /\ args.other = DefaultStyle =>
              (Ansi_eq(heap, ret.val, x) <=> args.self.reset)

MergeResetWitness ==
    /\ Added("Ansi")
    /\ args.other = DefaultStyle
    /\ ~args.self.reset
    /\ args.self.fore = RGBi(255, 100, 0)
    /\ ret.ok
    /\ Load(heap, ret.val).reset
    /\ ~Ansi_eq(heap, ret.val, x)

(***************************************************************************)
(* Properties of the setters.                                              *)
(***************************************************************************)
PlainValue(v) == IF v.kind = "bool" THEN v.b ELSE v

\* the style the j-th call of the plan has to return: its receiver with the
\* one attribute replaced; 0 stands for the style built first
RECURSIVE ExpectedStyle(_)
ExpectedStyle(j) ==
    IF j = 0 THEN args.self
    ELSE LET c == args.calls[j]
         IN  [ExpectedStyle(c.recv) EXCEPT ![AttrOf(c.name)] = PlainValue(c.value)]

\* C13: each setter returns a new style equal to its receiver in all nine
\* fields but the targeted one, which holds the given value; after any
\* sequence of setter calls on a style and on the styles derived from it,
\* the receiver of every call, the original included, has its nine fields
\* unchanged.
SettersLeaveReceiver ==
    op \in ColorSetters \cup FlagSetters =>
        /\ ret.ok
        /\ Load(heap, x) = args.self
        /\ \A j \in 1 .. Len(y) :
              /\ Load(heap, y[j]) = ExpectedStyle(j)
              /\ y[j].at # x.at
              /\ \A k \in 1 .. j - 1 : y[k].at # y[j].at

\* two calls, the second on the result of the first; the original keeps
\* both fields
SettersLeaveReceiverWitness ==
    /\ op = "set_bold"
    /\ Len(y) = 2
    /\ args.self = DefaultStyle
    /\ args.calls[1] = [name |-> "set_fore", value |-> RGBi(0, 0, 255), recv |-> 0]
    /\ args.calls[2] = [name |-> "set_bold", value |-> Bool(TRUE), recv |-> 1]
    /\ Load(heap, y[2]).fore = RGBi(0, 0, 255)
    /\ Load(heap, y[2]).bold
    /\ ~Load(heap, y[1]).bold
    /\ Load(heap, x) = DefaultStyle

(***************************************************************************)
(* Properties of to_ansi.                                                  *)
(***************************************************************************)
OtherFieldsDefault(st, target) ==
    /\ target # "fore" => st.fore = Str("default")
    /\ target # "back" => st.back = Str("default")
    /\ ~st.bold /\ ~st.dim /\ ~st.italic
    /\ ~st.underline /\ ~st.strikethrough /\ ~st.inverse
    /\ st.reset

\* C14: with target 'fore' (resp. 'back') to_ansi returns a sequence of the
\* length and order of colors whose i-th style has fore (resp. back) equal
\* to colors[i] and every other field at its default; with any other target
\* it fails with an invalid-argument error and returns no pattern, also for
\* an empty colors.
ToAnsiPattern ==
    Returned("to_ansi") =>
        IF args.target \in {"fore", "back"}
        THEN /\ ret.ok
             /\ Len(ret.val) = Len(args.colors)
             /\ \A i \in 1 .. Len(args.colors) :
                   /\ ret.val[i][args.target] = args.colors[i]
                   /\ OtherFieldsDefault(ret.val[i], args.target)
        ELSE ~ret.ok /\ ret.err = "ValueError"

ToAnsiPatternWitness ==
    /\ Returned("to_ansi")
    /\ args = [colors |-> <<RGBi(255, 0, 0), RGBi(0, 0, 0)>>, target |-> "back"]
    /\ ret.ok
    /\ ret.val[1].back = RGBi(255, 0, 0)
    /\ ret.val[2].back = RGBi(0, 0, 0)
    /\ ret.val[1].fore = Str("default")

ToAnsiRejectsWitness ==
    /\ Returned("to_ansi")
    /\ args = [colors |-> <<>>, target |-> "both"]
    /\ ret = Raise("ValueError")

(***************************************************************************)
(* Properties of from_dict on records with missing keys.                   *)
(***************************************************************************)
\* the value a style gets for a field from the record of InitRec
EntryValue(e) ==
    IF e.kind = "dict" THEN RGB(PyInt(255), PyInt(100), PyInt(0)) ELSE e

GivenValue(field) ==
    CASE field = "fore" -> EntryValue(args.fore)
      [] field = "back" -> EntryValue(args.back)
      [] field = "reset" -> FALSE
      [] OTHER -> TRUE

DefaultValue(field) ==
    CASE field \in {"fore", "back"} -> Str("default")
      [] field = "reset" -> TRUE
      [] OTHER -> FALSE

\* a colour record under a present key lacks one of red, green, blue
LacksChannel(field) ==
    /\ field \in args.keys
    /\ args[field].kind = "dict"
    /\ args[field].keys # {"red", "green", "blue"}

\* C15: a style record with any subset of its nine keys missing gives a
\* style with each missing field at its default (the empty record gives the
\* default style); a colour record lacking red, green or blue fails with a
\* missing-field error, also when nested as fore or back of a style record.
RecordDefaults ==
    /\ (op = "RGB.from_dict" /\ x = None) =>
          IF args.keys = {"red", "green", "blue"}
          THEN ret.ok /\ Load(heap, y) = RGBi(255, 100, 0)
          ELSE ret = Raise("KeyError")
    /\ (op = "Ansi.from_dict" /\ x = None) =>
          IF LacksChannel("fore") \/ LacksChannel("back")
          THEN ret = Raise("KeyError")
          ELSE /\ ret.ok
               /\ \A field \in {"fore", "back", "bold", "dim", "italic", "underline",
                                "strikethrough", "inverse", "reset"} :
                     Load(heap, y)[field] =
                        IF field \in args.keys THEN GivenValue(field)
                        ELSE DefaultValue(field)
               /\ args.keys = {} => Load(heap, y) = DefaultStyle

RecordDefaultsWitness ==
    /\ op = "Ansi.from_dict"
    /\ x = None
    /\ args.keys = {"fore", "bold"}
    /\ args.fore = [kind |-> "dict", keys |-> {"red", "green", "blue"}]
    /\ ret.ok
    /\ Load(heap, y) = [DefaultStyle EXCEPT !.fore = RGBi(255, 100, 0), !.bold = TRUE]

RecordEmptyWitness ==
    /\ op = "Ansi.from_dict"
    /\ x = None
    /\ args.keys = {}
    /\ ret.ok
    /\ Load(heap, y) = DefaultStyle

RecordNestedWitness ==
    /\ op = "Ansi.from_dict"
    /\ x = None
    /\ args.keys = {"fore", "back", "reset"}
    /\ args.fore = Str("red")
    /\ args.back = [kind |-> "dict", keys |-> {"red", "green"}]
    /\ ret = Raise("KeyError")
    /\ y = None

(***************************************************************************)
(* Properties of the layout of adv_gradient's result.                      *)
(***************************************************************************)
\* the stops in ascending percentage order, equal percentages in the order
\* they were passed
Ascending(colors) ==
    LET n == Len(colors)
        p == CHOOSE f \in [1 .. n -> 1 .. n] :
                \A i, j \in 1 .. n :
                    i < j => \/ colors[f[i]][2] < colors[f[j]][2]
                             \/ colors[f[i]][2] = colors[f[j]][2] /\ f[i] < f[j]
    IN  [i \in 1 .. n |-> colors[p[i]]]

\* n / d rounded to the nearest integer, halves to the even one (d > 0)
RoundHalfEven(n, d) ==
    LET q == n \div d
        r == n - q * d
    IN  IF 2 * r < d THEN q
        ELSE IF 2 * r > d THEN q + 1
        ELSE IF q % 2 = 0 THEN q ELSE q + 1

\* round(span / 100 * steps)
Allocated(span, steps) == RoundHalfEven(span * steps, 100)

Run(c, n) == [k \in 1 .. n |-> c]

RECURSIVE Flatten(_)
Flatten(parts) == IF parts = <<>> THEN <<>> ELSE Head(parts) \o Flatten(Tail(parts))

\* C16: the result of adv_gradient is a run of round(p_min/100 * steps)
\* copies of the lowest stop's colour when p_min is not 0, then for the real
\* stops in ascending percentage order the segments
\* gradient(stop_i.color, stop_{i+1}.color, allocated_i), then a run of
\* round((100 - p_max)/100 * steps) copies of the highest stop's colour when
\* p_max is not 100.
AdvGradientLayout ==
    (Returned("adv_gradient") /\ args.colors # <<>>) =>
        LET s == Ascending(args.colors)
            n == Len(s)
            lead == IF s[1][2] # 0 THEN Run(s[1][1], Allocated(s[1][2], args.steps))
                    ELSE <<>>
            trail == IF s[n][2] # 100
                     THEN Run(s[n][1], Allocated(100 - s[n][2], args.steps))
                     ELSE <<>>
            segment == [i \in 1 .. n - 1 |->
                          gradient(s[i][1], s[i + 1][1],
                                   Allocated(s[i + 1][2] - s[i][2], args.steps))]
        IN  IF \A i \in 1 .. n - 1 : segment[i].ok
            THEN ret = Return(lead \o Flatten([i \in 1 .. n - 1 |-> segment[i].val])
                              \o trail)
            ELSE ~ret.ok

AdvGradientLayoutWitness ==
    /\ Returned("adv_gradient")
    /\ args = [colors |-> << <<RGBi(255, 255, 255), 50>>, <<RGBi(255, 0, 0), 5>> >>,
               steps |-> 7]
    /\ ret = Return(<<RGBi(255, 0, 0), RGBi(255, 127, 127), RGBi(255, 255, 255),
                      RGBi(255, 255, 255), RGBi(255, 255, 255), RGBi(255, 255, 255),
                      RGBi(255, 255, 255)>>)

AdvGradientLeadWitness ==
    /\ Returned("adv_gradient")
    /\ args = [colors |-> << <<RGBi(0, 0, 0), 50>>, <<RGBi(255, 0, 0), 100>> >>,
               steps |-> 4]
    /\ ret = Return(<<RGBi(0, 0, 0), RGBi(0, 0, 0), RGBi(0, 0, 0), RGBi(255, 0, 0)>>)

(***************************************************************************)
(* Properties of the records to_dict returns.                              *)
(***************************************************************************)
\* C18: after r = x.to_dict(), changing an entry of r leaves x unchanged,
\* for an RGB x (its red, green and blue) and for a style x (its fields and
\* its RGB fore and back).
RecordSharesNothing ==
    op = "setitem" => Load(heap, x) = args.self

\* the part about styles: the record of a style shares nothing with it
StyleRecordSharesNothing ==
    (op = "setitem" /\ x.kind = "Ansi") => Load(heap, x) = args.self

(***************************************************************************)
(* Properties of the order of the stops passed to adv_gradient.            *)
(***************************************************************************)
DistinctPercents(colors) ==
    \A i, j \in 1 .. Len(colors) : i # j => colors[i][2] # colors[j][2]

Reorderings(s) ==
    {[i \in 1 .. Len(s) |-> s[f[i]]] :
        f \in {g \in [1 .. Len(s) -> 1 .. Len(s)] :
                 \A i, j \in 1 .. Len(s) : i # j => g[i] # g[j]}}

\* C19: for a stop list with pairwise distinct percentages, adv_gradient
\* gives the same outcome for every permutation of the list and the same
\* steps, and the caller's list is in its original order after the call.
StopOrderIrrelevant ==
    (Returned("adv_gradient") /\ DistinctPercents(args.colors)) =>
        /\ \A q \in Reorderings(args.colors) : adv_gradient(q, args.steps) = ret
        /\ x.items = args.colors

StopOrderIrrelevantWitness ==
    /\ Returned("adv_gradient")
    /\ args = [colors |-> << <<RGBi(255, 255, 255), 100>>, <<RGBi(0, 0, 0), 0>>,
                             <<RGBi(255, 0, 0), 50>> >>,
               steps |-> 6]
    /\ x.items = args.colors
    /\ ret = Return(<<RGBi(0, 0, 0), RGBi(127, 0, 0), RGBi(255, 0, 0),
                      RGBi(255, 0, 0), RGBi(255, 127, 127), RGBi(255, 255, 255)>>)

====
